---------------------------- MODULE Spec2Model ----------------------------
(***************************************************************************)
(* The getBlockTemplate work state of server/rpc: the template cache, the  *)
(* long-poll notification registry, the long-poll ID codec and the request *)
(* handlers that use them (src/server/rpc/handle_get_block_template.go).   *)
(*                                                                         *)
(* Strings are sequences of one-symbol strings.  A hash is modelled by its *)
(* hexadecimal string (what Hash.String() prints): 2*HashSize hex digits.  *)
(* A pay address is one symbol standing for its bech32 text, which holds   *)
(* no "-".  Times are mstime values in milliseconds; ZeroTime is the zero  *)
(* mstime.Time.                                                            *)
(***************************************************************************)
EXTENDS Integers, Sequences, FiniteSets, Bags, TLC

(***************************************************************************)
(* Bounds of the model.                                                    *)
(***************************************************************************)
MaxTicks == 2        \* clock advances
MaxChans == 2        \* channels ever made
MaxTasks == 1        \* spawned background tasks not yet run
MaxWaiters == 2      \* long-poll requests blocked in their select
MaxThreads == 2      \* goroutines followed through their lock steps
MaxTxs == 3          \* transactions of a template's block, the coinbase included
MaxGenerations == 3  \* regenerations whose committed values are kept for comparison

(***************************************************************************)
(* Program constants.                                                      *)
(***************************************************************************)
gbtRegenerateSeconds == 60
\* daghash.HashSize, the byte width of a hash, scaled from 32 to 2: a hash
\* string has 2*HashSize hex digits.
HashSize == 2
MaxHashStringSize == HashSize * 2
\* mstime.Time counts milliseconds; UnixSeconds() divides by this.
MillisecondsPerSecond == 1000
ZeroTime == 0

\* The nil slice and the nil address of a fresh gbtWorkState.
NilHashes == <<>>
NilAddress == "nil"

(***************************************************************************)
(* Strings.                                                                *)
(***************************************************************************)
DecimalDigits == <<"0", "1", "2", "3", "4", "5", "6", "7", "8", "9">>
HexDigits == {DecimalDigits[i] : i \in 1..10} \cup {"a", "b", "c", "d", "e", "f"}
IsDecimalDigit(ch) == \E i \in 1..10 : DecimalDigits[i] = ch
DigitValue(ch) == (CHOOSE i \in 1..10 : DecimalDigits[i] = ch) - 1

\* fmt "%d" of a non-negative integer.
RECURSIVE FormatInt(_)
FormatInt(n) ==
    IF n < 10 THEN <<DecimalDigits[n + 1]>>
    ELSE FormatInt(n \div 10) \o <<DecimalDigits[(n % 10) + 1]>>

RECURSIVE DigitsValue(_)
DigitsValue(s) ==
    IF s = <<>> THEN 0
    ELSE 10 * DigitsValue(SubSeq(s, 1, Len(s) - 1)) + DigitValue(s[Len(s)])

\* strconv.ParseInt(s, 10, 64): an optional sign, then one or more digits.
ParseInt(s) ==
    LET body == IF s # <<>> /\ s[1] \in {"+", "-"} THEN Tail(s) ELSE s
        neg == s # <<>> /\ s[1] = "-"
    IN  IF body = <<>> \/ \E i \in 1..Len(body) : ~IsDecimalDigit(body[i])
        THEN [err |-> TRUE, val |-> 0]
        ELSE [err |-> FALSE,
              val |-> IF neg THEN 0 - DigitsValue(body) ELSE DigitsValue(body)]

\* strings.Split(s, sep) for a one-symbol separator.
RECURSIVE Split(_, _)
Split(s, sep) ==
    IF \E i \in 1..Len(s) : s[i] = sep
    THEN LET i == CHOOSE k \in 1..Len(s) :
                      s[k] = sep /\ \A j \in 1..(k - 1) : s[j] # sep
         IN  <<SubSeq(s, 1, i - 1)>> \o Split(SubSeq(s, i + 1, Len(s)), sep)
    ELSE <<s>>

\* daghash.JoinHashesStrings(hashes, ""): the hash strings, concatenated.
RECURSIVE JoinHashesStrings(_)
JoinHashesStrings(hashes) ==
    IF hashes = <<>> THEN <<>>
    ELSE Head(hashes) \o JoinHashesStrings(Tail(hashes))

\* mstime.Time.UnixSeconds()
UnixSeconds(t) == t \div MillisecondsPerSecond


(***************************************************************************)
(* The values the environment draws from.                                  *)
(***************************************************************************)
\* Hash strings.
hashA == <<"0", "0", "0", "1">>
hashB == <<"0", "0", "0", "2">>
\* The tip sets the DAG moves between (DAG.TipHashes() is never empty).
TipSets == {<<hashA>>, <<hashA, hashB>>}
\* Decoded pay addresses (util.Address), each printing as one symbol.
Addresses == {"kaspa:qa", "kaspa:qb"}
\* The clock starts at one second and advances by half a second and by
\* gbtRegenerateSeconds in turn: 1000, 1500, 61500, 62000, 122000 ...
StartTime == MillisecondsPerSecond
HalfSecond == MillisecondsPerSecond \div 2
TickDelta(k) ==
    IF k % 2 = 0 THEN HalfSecond
    ELSE gbtRegenerateSeconds * MillisecondsPerSecond

VARIABLES
    now,                 \* mstime.Now()
    ticks,               \* clock advances so far
    dagTips,             \* s.cfg.DAG.TipHashes()
    mempoolLastUpdated,  \* generator.TxSource().LastUpdated()
    tasks,               \* spawned NotifyBlockAdded / NotifyMempoolTx closures not yet run
    hashStrPadding,      \* whether daghash.NewHashFromStr zero-pads a short string
    lastTxUpdate,        \* gbtWorkState fields
    lastGenerated,
    tipHashes,
    minTimestamp,
    template,
    notifyMap,
    payAddress,
    waiting,             \* the long-poll requests blocked in their select: a bag
                         \* of the (channel, pay address, key) each one holds
    chansMade,           \* channels made so far; channel k is the k-th made
    closeCount,          \* how many times close(c) ran on each channel
    done,                \* the operation the latest step completed
    mutex,               \* gbtWorkState's embedded sync.Mutex: the goroutine
                         \* whose Lock() took it, Unlocked when it is free
    pc,                  \* where each followed goroutine is
    req,                 \* what each followed goroutine is running
    generations          \* history: what each regeneration committed, in order

vars == <<now, ticks, dagTips, mempoolLastUpdated, tasks, hashStrPadding,
          lastTxUpdate, lastGenerated, tipHashes, minTimestamp, template,
          notifyMap, payAddress, waiting, chansMade, closeCount, done,
          mutex, pc, req, generations>>

\* The goroutines' lock steps; they stand still in the specifications that
\* take a critical section as one step.
lockVars == <<mutex, pc, req>>

\* What stands still in a step of a specification that neither follows the
\* lock steps nor keeps the history of the regenerations.
stillVars == <<lockVars, generations>>

envVars == <<now, ticks, mempoolLastUpdated, hashStrPadding>>

(***************************************************************************)
(* The long-poll ID codec.                                                 *)
(***************************************************************************)
\* util.Address.String()
AddressString(addr) == <<addr>>

encodeLongPollID(parentHashes, miningAddress, lastGen) ==
    JoinHashesStrings(parentHashes) \o <<"-">> \o AddressString(miningAddress)
        \o <<"-">> \o FormatInt(UnixSeconds(lastGen))

\* daghash.NewHashFromStr: a string longer than a hash string or holding a
\* non-hex digit is an error; a shorter one is zero-padded on the left, or an
\* error, as the daghash build has it.
NewHashFromStr(str) ==
    IF Len(str) > MaxHashStringSize
       \/ (~hashStrPadding /\ Len(str) # MaxHashStringSize)
       \/ \E i \in 1..Len(str) : str[i] \notin HexDigits
    THEN [err |-> TRUE, hash |-> <<>>]
    ELSE [err |-> FALSE,
          hash |-> [i \in 1..(MaxHashStringSize - Len(str)) |-> "0"] \o str]

\* The width of the slices decodeLongPollID cuts the hash field into.
DecodeChunkSize == HashSize

decodeLongPollID(longPollID) ==
    LET fields == Split(longPollID, "-")
        failed == [err |-> TRUE, parentHashes |-> <<>>, lastGenerated |-> 0]
    IN  IF Len(fields) # 2 THEN failed
        ELSE
        LET parentHashesStr == fields[1]
            numberOfHashes == Len(parentHashesStr) \div DecodeChunkSize
            parsed == [i \in 1..numberOfHashes |->
                         NewHashFromStr(SubSeq(parentHashesStr,
                                               (i - 1) * DecodeChunkSize + 1,
                                               i * DecodeChunkSize))]
            timestamp == ParseInt(fields[2])
        IN  IF Len(parentHashesStr) % DecodeChunkSize # 0 THEN failed
            ELSE IF \E i \in 1..numberOfHashes : parsed[i].err THEN failed
            ELSE IF timestamp.err THEN failed
            ELSE [err |-> FALSE,
                  parentHashes |-> [i \in 1..numberOfHashes |-> parsed[i].hash],
                  lastGenerated |-> timestamp.val]

(***************************************************************************)
(* The notification registry: notifyMap maps a tip-hashes string to a map  *)
(* from generation second to channel.                                      *)
(***************************************************************************)
EmptyMap == [x \in {} |-> 0]
MapDelete(m, keys) == [k \in (DOMAIN m) \ keys |-> m[k]]
MapPut(m, key, val) == [k \in (DOMAIN m) \cup {key} |-> IF k = key THEN val ELSE m[k]]

\* close(c) for every channel stored at the (hashesStr, lastGen) places.
CloseChannels(map, count, places) ==
    [c \in DOMAIN count |->
        count[c] + Cardinality({p \in places : map[p[1]][p[2]] = c})]

\* The first loop of notifyLongPollers: the keys that are not the current tip
\* hashes, all of whose channels are closed and which are deleted.
OtherHashesKeys(map, tipHashesStr) == {h \in DOMAIN map : h # tipHashesStr}

\* A second loop that compares with <= instead of <.
StaleGenerationsInclusive(channels, lastGeneratedUnix) ==
    {lastGen \in DOMAIN channels : lastGen <= lastGeneratedUnix}

\* The second loop: the generation seconds whose channels are closed and deleted.
StaleGenerations(channels, lastGeneratedUnix) ==
    {lastGen \in DOMAIN channels : lastGen < lastGeneratedUnix}

\* A notifyLongPollers without its last step.
KeepIfEmpty(map, tipHashesStr) == map

\* "Remove the entry altogether if there are no more registered channels."
RemoveIfEmpty(map, tipHashesStr) ==
    IF DOMAIN map[tipHashesStr] = {} THEN MapDelete(map, {tipHashesStr}) ELSE map

\* A second loop that closes the channels and leaves them in the map.
KeepClosed(channels, gens) == channels

\* The map after a channel was closed: delete(channels, lastGen).
DeleteClosed(channels, gens) == MapDelete(channels, gens)

notifyLongPollers(map, count, tips, lastGen) ==
    LET tipHashesStr == JoinHashesStrings(tips)
        others == OtherHashesKeys(map, tipHashesStr)
        places1 == UNION {{<<h, t>> : t \in DOMAIN map[h]} : h \in others}
        map1 == MapDelete(map, others)
        count1 == CloseChannels(map, count, places1)
    IN  IF lastGen = ZeroTime THEN [notifyMap |-> map1, closeCount |-> count1]
        ELSE IF tipHashesStr \notin DOMAIN map1
             THEN [notifyMap |-> map1, closeCount |-> count1]
        ELSE
        LET channels == map1[tipHashesStr]
            stale == StaleGenerations(channels, UnixSeconds(lastGen))
            places2 == {<<tipHashesStr, t>> : t \in stale}
            map2 == MapPut(map1, tipHashesStr, DeleteClosed(channels, stale))
        IN  [notifyMap |-> RemoveIfEmpty(map2, tipHashesStr),
             closeCount |-> CloseChannels(map1, count1, places2)]

\* A templateUpdateChan that makes a channel for every caller.
templateUpdateChanAlwaysMakes(map, made, tips, lastGen) ==
    LET tipHashesStr == JoinHashesStrings(tips)
        channels == IF tipHashesStr \in DOMAIN map THEN map[tipHashesStr] ELSE EmptyMap
    IN  [notifyMap |-> MapPut(map, tipHashesStr, MapPut(channels, lastGen, made + 1)),
         chan |-> made + 1,
         chansMade |-> made + 1]

templateUpdateChan(map, made, tips, lastGen) ==
    LET tipHashesStr == JoinHashesStrings(tips)
        channels == IF tipHashesStr \in DOMAIN map THEN map[tipHashesStr] ELSE EmptyMap
        exists == lastGen \in DOMAIN channels
        c == IF exists THEN channels[lastGen] ELSE made + 1
    IN  [notifyMap |-> MapPut(map, tipHashesStr, MapPut(channels, lastGen, c)),
         chan |-> c,
         chansMade |-> IF exists THEN made ELSE made + 1]


(***************************************************************************)
(* The template cache.                                                     *)
(***************************************************************************)
\* state.template == nil
NoTemplate == [parentHashes |-> <<>>]

BlockAddedTask(tips) == [kind |-> "blockAdded", tipHashes |-> tips, lastUpdated |-> ZeroTime]
MempoolTxTask(t) == [kind |-> "mempoolTx", tipHashes |-> <<>>, lastUpdated |-> t]

\* s.cfg.DAG.NextBlockMinimumTime(): a time the DAG derives from its tips.
NextBlockMinimumTime(tips) == Len(tips)

\* The work state as updateBlockTemplate finds it.
CurrentState ==
    [lastTxUpdate |-> lastTxUpdate, lastGenerated |-> lastGenerated,
     tipHashes |-> tipHashes, minTimestamp |-> minTimestamp, template |-> template,
     notifyMap |-> notifyMap, payAddress |-> payAddress, closeCount |-> closeCount,
     dagTips |-> dagTips, tasks |-> tasks]

\* The condition without its comparison of the pay addresses.
MustRegenerateWhateverAddress(payAddr, txUpdate, tips) ==
    \/ template = NoTemplate
    \/ tipHashes = NilHashes
    \/ tipHashes # tips
    \/ /\ lastTxUpdate # txUpdate
       /\ now > lastGenerated + gbtRegenerateSeconds * MillisecondsPerSecond

\* The condition under which updateBlockTemplate generates a new template.
MustRegenerate(payAddr, txUpdate, tips) ==
    \/ template = NoTemplate
    \/ tipHashes = NilHashes
    \/ tipHashes # tips
    \/ payAddress # payAddr
    \/ /\ lastTxUpdate # txUpdate
       /\ now > lastGenerated + gbtRegenerateSeconds * MillisecondsPerSecond

\* The parent hashes generator.NewBlockTemplate may build on: the tips read
\* at the top of updateBlockTemplate, or the tips of a DAG that a block was
\* added to since (which also spawns NotifyBlockAdded for them).
BuildableTips(tips) ==
    {tips} \cup {t \in TipSets : Cardinality(tasks \cup {BlockAddedTask(t)}) <= MaxTasks}

\* The arguments updateBlockTemplate gives notifyLongPollers after a commit.
RegenerationNotifyTime(txUpdate) == txUpdate

\* A failed regeneration that leaves tipHashes as it was.
FailedRegenerationKeepsTips(same) ==
    [same EXCEPT !.err = TRUE, !.path = "fail"]

\* The outcome of a regeneration that random.Uint64 or
\* generator.NewBlockTemplate fails: state.tipHashes = nil has been done,
\* nothing else.
FailedRegeneration(same) ==
    [same EXCEPT !.err = TRUE, !.path = "fail", !.tipHashes = NilHashes]

\* No write to the header of the template in force.
NoHeaderWrite == [f \in {} |-> ""]

\* generator.UpdateBlockTime(msgBlock): the header fields it may write, the
\* timestamp and, on a network that reduces the difficulty, the bits.
UpdateBlockTime == {{"Timestamp"}, {"Timestamp", "Bits"}}

\* A refresh that leaves the nonce of the header as it is.
RefreshHeaderKeepsNonce(written) ==
    [f \in written |-> "UpdateBlockTime"]

\* The writes of the refresh branch to the header of the template in force:
\* those of UpdateBlockTime, then Header.Nonce = 0.
RefreshHeader(written) ==
    [f \in written \cup {"Nonce"} |-> IF f = "Nonce" THEN "0" ELSE "UpdateBlockTime"]

\* The outcomes of updateBlockTemplate(s, payAddr): the work state it leaves,
\* with err (the call failed), path and the notification it made.
updateBlockTemplate(payAddr) ==
    LET txUpdate == IF mempoolLastUpdated = ZeroTime THEN now ELSE mempoolLastUpdated
        tips == dagTips
        same == CurrentState @@ [err |-> FALSE, path |-> "refresh",
                                 header |-> NoHeaderWrite]
    IN  IF MustRegenerate(payAddr, txUpdate, tips)
        THEN \* random.Uint64() or generator.NewBlockTemplate failed
             {FailedRegeneration(same)}
             \cup
             {LET told == notifyLongPollers(notifyMap, closeCount, tips,
                                            RegenerationNotifyTime(txUpdate))
              IN  [same EXCEPT
                     !.path = "regen",
                     !.template = [parentHashes |-> built],
                     !.lastGenerated = now,
                     !.lastTxUpdate = txUpdate,
                     !.tipHashes = tips,
                     !.minTimestamp = NextBlockMinimumTime(built),
                     !.payAddress = payAddr,
                     !.notifyMap = told.notifyMap,
                     !.closeCount = told.closeCount,
                     !.dagTips = built,
                     !.tasks = IF built = tips THEN tasks
                               ELSE tasks \cup {BlockAddedTask(built)}]
              : built \in BuildableTips(tips)}
        ELSE {[same EXCEPT !.header = RefreshHeader(w)] : w \in UpdateBlockTime}

\* state.blockTemplateResult(s) on the work state ws, when the template time
\* is in range.
blockTemplateResult(ws) ==
    [parentHashes |-> ws.template.parentHashes,
     longPollID |-> encodeLongPollID(ws.tipHashes, ws.payAddress, ws.lastGenerated)]

(***************************************************************************)
(* The transaction list of a reply.                                        *)
(***************************************************************************)
\* The sequences of length n over S without a repetition.
InjectiveSeqs(S, n) ==
    {q \in [1..n -> S] : \A i, j \in 1..n : i # j => q[i] # q[j]}

Range(q) == {q[i] : i \in 1..Len(q)}

\* The IDs of the transactions of a block, and the ID of a transaction that
\* is in no block being built.
TxIDPool == {"a", "b", "c"}
ExternalTxID == "x"

\* The PreviousOutpoint.TxID of the inputs a transaction with this ID may
\* have: up to two, of other transactions of the block (earlier or later),
\* the same one twice, or external.  A transaction's ID is the hash of its
\* content, its inputs' outpoints included, so no input names the
\* transaction itself.
TxInputs(id) ==
    UNION {[1..m -> (TxIDPool \ {id}) \cup {ExternalTxID}] : m \in 0..2}

\* The templates generator.NewBlockTemplate may return, as blockTemplateResult
\* reads them: a block of 1..MaxTxs transactions with different IDs, the first
\* the coinbase (it has no input), and the mass and the fee of each, index by
\* index.
BlockTemplates ==
    UNION {UNION {{[txs |-> [k \in 1..n |-> [id |-> ids[k], ins |-> ins[k]]],
                    txMasses |-> [k \in 1..n |-> 100 * k],
                    fees |-> [k \in 1..n |-> k - 1]] :
                      ins \in {f \in [1..n -> UNION {TxInputs(id) : id \in TxIDPool}] :
                                  /\ f[1] = <<>>
                                  /\ \A k \in 1..n : f[k] \in TxInputs(ids[k])}} :
                  ids \in InjectiveSeqs(TxIDPool, n)} :
           n \in 1..MaxTxs}

\* txIndex after the loop body has run txIndex[*txID] = int64(i) for the
\* indices 0..i: a later transaction overwrites an earlier one of its ID.
TxIndexAfter(txs, i) ==
    [id \in {txs[k].id : k \in 1..(i + 1)} |->
        CHOOSE g \in 0..i :
            /\ txs[g + 1].id = id
            /\ \A h \in 0..i : txs[h + 1].id = id => h <= g]

\* A dependsMap that holds the indices counted from 1.
DependsMapFromOne(txs, i) ==
    LET txIndex == TxIndexAfter(txs, i)
    IN  {txIndex[id] + 1 : id \in Range(txs[i + 1].ins) \cap DOMAIN txIndex}

\* The keys of dependsMap for the transaction at index i (from 0).
DependsMap(txs, i) ==
    LET txIndex == TxIndexAfter(txs, i)
    IN  {txIndex[id] : id \in Range(txs[i + 1].ins) \cap DOMAIN txIndex}

\* The loop of blockTemplateResult over msgBlock.Transactions: the lists it
\* may build, one entry appended per iteration; depends takes the keys of
\* dependsMap in the order the map's range gives, which is any.  data stands
\* for the serialized transaction.
ResultTransactions(blockTemplate) ==
    LET txs == blockTemplate.txs
        numTx == Len(txs)
        orders == UNION {InjectiveSeqs(DependsMap(txs, i), Cardinality(DependsMap(txs, i))) :
                            i \in 0..(numTx - 1)}
    IN  {[k \in 1..numTx |->
            [data |-> txs[k], id |-> txs[k].id, depends |-> depends[k],
             mass |-> blockTemplate.txMasses[k], fee |-> blockTemplate.fees[k]]] :
         depends \in {f \in [1..numTx -> orders] :
                         \A k \in 1..numTx : Range(f[k]) = DependsMap(txs, k - 1)
                                             /\ Len(f[k]) = Cardinality(DependsMap(txs, k - 1))}}

\* state.template == nil, as far as the transactions go.
NoBlockTemplate == [txs |-> <<>>, txMasses |-> <<>>, fees |-> <<>>]

\* An error value: nil, a blockdag.RuleError with its code, or another error.
NilError == [rule |-> FALSE, code |-> "nil", text |-> ""]
\* CheckConnectBlockTemplate has not been called.
NotInvoked == [rule |-> FALSE, code |-> "not invoked", text |-> ""]

(***************************************************************************)
(* The request handlers.  gbtWorkState's mutex serialises the critical     *)
(* sections, so each one (state.Lock() to state.Unlock()) is one step.     *)
(***************************************************************************)
NoSub == [chan |-> 0, payAddr |-> NilAddress, tipHashes |-> <<>>, lastGenerated |-> 0]

\* What the latest step completed; NoOp when it completed no operation.
\* sub is the registration of the request that suspended, woke or quit,
\* fired the channels the step closed, payAddr the pay address of the request,
\* header the writes of its update to the header of the template in force;
\* for a proposal, data is its request.Data, check what
\* CheckConnectBlockTemplate returned and result the value returned; for a
\* transaction list, block is the template read and transactions the list.
NoOp == [op |-> "none", longPollID |-> <<>>, path |-> "none", outcome |-> "none",
         sub |-> NoSub, fired |-> {}, payAddr |-> NilAddress,
         header |-> NoHeaderWrite, data |-> <<>>, check |-> NotInvoked,
         result |-> "", block |-> NoBlockTemplate, transactions |-> <<>>]

\* The channels closed by a step that leaves the close counts count.
ClosedBy(count) == {c \in DOMAIN closeCount : count[c] > closeCount[c]}

\* The long-poll IDs a client may send: the one replies carry now, two-field
\* IDs written by hand (the second halves of the hash strings, then a second),
\* and malformed ones.
RECURSIVE SecondHalves(_)
SecondHalves(tips) ==
    IF tips = <<>> THEN <<>>
    ELSE SubSeq(Head(tips), HashSize + 1, MaxHashStringSize) \o SecondHalves(Tail(tips))

\* A hash field that is not hexadecimal, a second that is no integer.
MalformedIDs == {<<"z", "z", "-", "5">>, <<"0", "1", "-", "x">>}

\* The LongPollID of a reply made from the work state as it is.
CurrentLongPollID == blockTemplateResult(CurrentState).longPollID

ClientLongPollIDs ==
    LET sec == UnixSeconds(IF template = NoTemplate THEN now ELSE lastGenerated)
    IN  (IF template = NoTemplate \/ tipHashes = NilHashes THEN {}
         ELSE {CurrentLongPollID})
        \cup {SecondHalves(t) \o <<"-">> \o FormatInt(sec) : t \in TipSets}
        \cup MalformedIDs

\* A commit in which a failed regeneration also clears lastGenerated.
CommitClearsGeneration(ws) ==
    /\ lastTxUpdate' = ws.lastTxUpdate
    /\ lastGenerated' = IF ws.err THEN ZeroTime ELSE ws.lastGenerated
    /\ tipHashes' = ws.tipHashes
    /\ minTimestamp' = ws.minTimestamp
    /\ template' = ws.template
    /\ payAddress' = ws.payAddress
    /\ closeCount' = ws.closeCount
    /\ dagTips' = ws.dagTips
    /\ tasks' = ws.tasks

\* The work state after an outcome of updateBlockTemplate.
Commit(ws) ==
    /\ lastTxUpdate' = ws.lastTxUpdate
    /\ lastGenerated' = ws.lastGenerated
    /\ tipHashes' = ws.tipHashes
    /\ minTimestamp' = ws.minTimestamp
    /\ template' = ws.template
    /\ payAddress' = ws.payAddress
    /\ closeCount' = ws.closeCount
    /\ dagTips' = ws.dagTips
    /\ tasks' = ws.tasks

\* A handler's return after updateBlockTemplate and blockTemplateResult:
\* the update's error, the out-of-range error, or the reply.
Answer(op, id, addr, s, ws, outOfRange) ==
    done' = [NoOp EXCEPT
               !.op = op, !.longPollID = id, !.path = ws.path,
               !.payAddr = addr, !.header = ws.header,
               !.outcome = IF ws.err THEN "ErrRPCInternal"
                           ELSE IF outOfRange THEN "ErrRPCOutOfRange"
                           ELSE "reply",
               !.sub = s, !.fired = ClosedBy(ws.closeCount)]

\* handleGetBlockTemplateRequest returning before it locks: no peer is
\* connected, or the pay address does not decode.
RequestRefused ==
    /\ done = NoOp
    /\ done' = [NoOp EXCEPT !.op = "refused", !.outcome = "refused"]
    /\ UNCHANGED <<envVars, dagTips, tasks, lastTxUpdate, lastGenerated, tipHashes,
                   minTimestamp, template, notifyMap, payAddress, waiting,
                   chansMade, closeCount>>

\* handleGetBlockTemplateRequest without a long-poll ID.
\* outOfRange: the template time is after dag.Now() plus the tolerance.
TemplateRequest(addr, outOfRange) ==
    /\ done = NoOp
    /\ \E ws \in updateBlockTemplate(addr) :
          /\ Commit(ws)
          /\ notifyMap' = ws.notifyMap
          /\ Answer("template", <<>>, addr, NoSub, ws, outOfRange)
    /\ UNCHANGED <<envVars, waiting, chansMade>>

\* A handler that returns the template now only when the ID decodes and is stale.
ReturnsTemplateNowOnlyIfDecoded(ws, decoded) ==
    /\ ~decoded.err
    /\ \/ ws.template.parentHashes # decoded.parentHashes
       \/ decoded.lastGenerated # UnixSeconds(ws.lastGenerated)

\* The decision of blockTemplateOrLongPollChan after a successful update:
\* TRUE when it returns the template now, FALSE when it returns a channel.
ReturnsTemplateNow(ws, decoded) ==
    \/ decoded.err
    \/ ws.template.parentHashes # decoded.parentHashes
    \/ decoded.lastGenerated # UnixSeconds(ws.lastGenerated)

\* handleGetBlockTemplateLongPoll up to its select: blockTemplateOrLongPollChan.
LongPollRequest(id, addr, outOfRange) ==
    /\ done = NoOp
    /\ \E ws \in updateBlockTemplate(addr) :
          LET decoded == decodeLongPollID(id)
          IN  /\ Commit(ws)
              /\ IF ws.err \/ ReturnsTemplateNow(ws, decoded)
                 THEN /\ notifyMap' = ws.notifyMap
                      /\ Answer("longpoll", id, addr, NoSub, ws, outOfRange)
                      /\ UNCHANGED <<waiting, chansMade>>
                 ELSE LET r == templateUpdateChan(ws.notifyMap, chansMade,
                                                  decoded.parentHashes,
                                                  decoded.lastGenerated)
                          s == [chan |-> r.chan, payAddr |-> addr,
                                tipHashes |-> decoded.parentHashes,
                                lastGenerated |-> decoded.lastGenerated]
                      IN  /\ ~outOfRange
                          /\ r.chansMade <= MaxChans
                          /\ BagCardinality(waiting) < MaxWaiters
                          /\ notifyMap' = r.notifyMap
                          /\ chansMade' = r.chansMade
                          /\ waiting' = waiting (+) SetToBag({s})
                          /\ done' = [NoOp EXCEPT
                                        !.op = "longpoll", !.longPollID = id,
                                        !.path = ws.path, !.outcome = "suspend",
                                        !.payAddr = addr, !.header = ws.header,
                                        !.sub = s,
                                        !.fired = ClosedBy(ws.closeCount)]
    /\ UNCHANGED envVars

\* A cancel that takes the request's tip-hashes entry out of the registry.
ClientQuitUnsubscribes(s) ==
    /\ done = NoOp
    /\ BagIn(s, waiting)
    /\ waiting' = waiting (-) SetToBag({s})
    /\ notifyMap' = MapDelete(notifyMap, {JoinHashesStrings(s.tipHashes)})
    /\ done' = [NoOp EXCEPT !.op = "quit", !.outcome = "ErrClientQuit", !.sub = s]
    /\ UNCHANGED <<envVars, dagTips, tasks, lastTxUpdate, lastGenerated, tipHashes,
                   minTimestamp, template, payAddress, chansMade, closeCount>>

\* case <-closeChan: return nil, ErrClientQuit
ClientQuit(s) ==
    /\ done = NoOp
    /\ BagIn(s, waiting)
    /\ waiting' = waiting (-) SetToBag({s})
    /\ done' = [NoOp EXCEPT !.op = "quit", !.outcome = "ErrClientQuit", !.sub = s]
    /\ UNCHANGED <<envVars, dagTips, tasks, lastTxUpdate, lastGenerated, tipHashes,
                   minTimestamp, template, notifyMap, payAddress, chansMade,
                   closeCount>>

\* handleGetBlockTemplateLongPoll from case <-longPollChan on.
WokenRequest(s, outOfRange) ==
    /\ done = NoOp
    /\ BagIn(s, waiting)
    /\ closeCount[s.chan] > 0
    /\ \E ws \in updateBlockTemplate(s.payAddr) :
          /\ Commit(ws)
          /\ notifyMap' = ws.notifyMap
          /\ Answer("woken", <<>>, s.payAddr, s, ws, outOfRange)
    /\ waiting' = waiting (-) SetToBag({s})
    /\ UNCHANGED <<envVars, chansMade>>


\* blockTemplateResult building reply.Transactions from the template.
TransactionList(blockTemplate) ==
    /\ done = NoOp
    /\ \E transactions \in ResultTransactions(blockTemplate) :
          done' = [NoOp EXCEPT !.op = "transactions", !.block = blockTemplate,
                               !.transactions = transactions]
    /\ UNCHANGED <<envVars, dagTips, tasks, lastTxUpdate, lastGenerated, tipHashes,
                   minTimestamp, template, notifyMap, payAddress, waiting,
                   chansMade, closeCount>>

(***************************************************************************)
(* Block proposals.                                                        *)
(***************************************************************************)
\* The error codes dagErrToGBTErrString has a case for.
ListedRuleErrorCodes ==
    {"ErrDuplicateBlock", "ErrBlockMassTooHigh", "ErrBlockVersionTooOld",
     "ErrTimeTooOld", "ErrTimeTooNew", "ErrDifficultyTooLow",
     "ErrUnexpectedDifficulty", "ErrHighHash", "ErrBadMerkleRoot",
     "ErrFinalityPointTimeTooOld", "ErrNoTransactions", "ErrNoTxInputs",
     "ErrTxMassTooHigh", "ErrBadTxOutValue", "ErrDuplicateTxInputs",
     "ErrBadTxInput", "ErrMissingTxOut", "ErrUnfinalizedTx", "ErrDuplicateTx",
     "ErrOverwriteTx", "ErrImmatureSpend", "ErrSpendTooHigh", "ErrBadFees",
     "ErrTooManySigOps", "ErrFirstTxNotCoinbase", "ErrMultipleCoinbases",
     "ErrBadCoinbasePayloadLen", "ErrScriptMalformed", "ErrScriptValidation",
     "ErrParentBlockUnknown", "ErrInvalidAncestorBlock",
     "ErrParentBlockNotCurrentTips"}

\* A code of blockdag that dagErrToGBTErrString has no case for.
UnlistedRuleErrorCodes == {"ErrNoParents"}

RuleError(code) == [rule |-> TRUE, code |-> code, text |-> code]
\* An error that is no RuleError.
OtherErrors == {[rule |-> FALSE, code |-> "other", text |-> "database closed"]}

\* What s.cfg.DAG.CheckConnectBlockTemplate(block) may return.
CheckConnectBlockTemplate ==
    {NilError}
    \cup {RuleError(c) : c \in ListedRuleErrorCodes \cup UnlistedRuleErrorCodes}
    \cup OtherErrors

\* A mapper with the default case only.
dagErrToGBTErrStringDefaultOnly(err) ==
    "rejected: " \o err.text

dagErrToGBTErrString(err) ==
    IF ~err.rule THEN "rejected: " \o err.text
    ELSE CASE err.code = "ErrDuplicateBlock" -> "duplicate"
           [] err.code = "ErrBlockMassTooHigh" -> "bad-blk-mass"
           [] err.code = "ErrBlockVersionTooOld" -> "bad-version"
           [] err.code = "ErrTimeTooOld" -> "time-too-old"
           [] err.code = "ErrTimeTooNew" -> "time-too-new"
           [] err.code = "ErrDifficultyTooLow" -> "bad-diffbits"
           [] err.code = "ErrUnexpectedDifficulty" -> "bad-diffbits"
           [] err.code = "ErrHighHash" -> "high-hash"
           [] err.code = "ErrBadMerkleRoot" -> "bad-txnmrklroot"
           [] err.code = "ErrFinalityPointTimeTooOld" -> "finality-point-time-too-old"
           [] err.code = "ErrNoTransactions" -> "bad-txns-none"
           [] err.code = "ErrNoTxInputs" -> "bad-txns-noinputs"
           [] err.code = "ErrTxMassTooHigh" -> "bad-txns-mass"
           [] err.code = "ErrBadTxOutValue" -> "bad-txns-outputvalue"
           [] err.code = "ErrDuplicateTxInputs" -> "bad-txns-dupinputs"
           [] err.code = "ErrBadTxInput" -> "bad-txns-badinput"
           [] err.code = "ErrMissingTxOut" -> "bad-txns-missinginput"
           [] err.code = "ErrUnfinalizedTx" -> "bad-txns-unfinalizedtx"
           [] err.code = "ErrDuplicateTx" -> "bad-txns-duplicate"
           [] err.code = "ErrOverwriteTx" -> "bad-txns-overwrite"
           [] err.code = "ErrImmatureSpend" -> "bad-txns-maturity"
           [] err.code = "ErrSpendTooHigh" -> "bad-txns-highspend"
           [] err.code = "ErrBadFees" -> "bad-txns-fees"
           [] err.code = "ErrTooManySigOps" -> "high-sigops"
           [] err.code = "ErrFirstTxNotCoinbase" -> "bad-txns-nocoinbase"
           [] err.code = "ErrMultipleCoinbases" -> "bad-txns-multicoinbase"
           [] err.code = "ErrBadCoinbasePayloadLen" -> "bad-cb-length"
           [] err.code = "ErrScriptMalformed" -> "bad-script-malformed"
           [] err.code = "ErrScriptValidation" -> "bad-script-validate"
           [] err.code = "ErrParentBlockUnknown" -> "parent-blk-not-found"
           [] err.code = "ErrInvalidAncestorBlock" -> "bad-parentblk"
           [] err.code = "ErrParentBlockNotCurrentTips" -> "inconclusive-not-best-parentblk"
           [] OTHER -> "rejected: " \o err.text

\* The texts err.Error() may give.
ErrorTexts == {"database closed", "block is too big", "timeout"}

\* The errors dagErrToGBTErrString may be given: rule errors of every code
\* and errors that are no RuleError, with any text.
RejectionInputs ==
    {[rule |-> TRUE, code |-> c, text |-> t] :
        c \in ListedRuleErrorCodes \cup UnlistedRuleErrorCodes, t \in ErrorTexts}
    \cup {[rule |-> FALSE, code |-> "other", text |-> t] : t \in ErrorTexts}

\* A call of dagErrToGBTErrString(err).
RejectionString(err) ==
    /\ done = NoOp
    /\ done' = [NoOp EXCEPT !.op = "rejection", !.check = err,
                            !.result = dagErrToGBTErrString(err)]
    /\ UNCHANGED <<envVars, dagTips, tasks, lastTxUpdate, lastGenerated, tipHashes,
                   minTimestamp, template, notifyMap, payAddress, waiting,
                   chansMade, closeCount>>

\* if len(hexData)%2 != 0 { hexData = "0" + hexData }
PadHex(hexData) == IF Len(hexData) % 2 # 0 THEN <<"0">> \o hexData ELSE hexData

\* hex.DecodeString: the bytes, two digits each, or an error.
DecodeHexString(hexData) ==
    IF Len(hexData) % 2 # 0 \/ \E i \in 1..Len(hexData) : hexData[i] \notin HexDigits
    THEN [err |-> TRUE, bytes |-> <<>>]
    ELSE [err |-> FALSE,
          bytes |-> [i \in 1..(Len(hexData) \div 2) |->
                        <<hexData[2 * i - 1], hexData[2 * i]>>]]

\* msgBlock.Deserialize, for a block that is its parent hashes only: HashSize
\* bytes a hash, at least one hash.
Deserialize(bytes) ==
    IF bytes = <<>> \/ Len(bytes) % HashSize # 0
    THEN [err |-> TRUE, parentHashes |-> <<>>]
    ELSE [err |-> FALSE,
          parentHashes |-> [i \in 1..(Len(bytes) \div HashSize) |->
                               bytes[2 * i - 1] \o bytes[2 * i]]]

\* The proposed block of a request's data, through the padding, the hex
\* decoding and the deserialization.
ProposedBlock(hexData) ==
    LET decoded == DecodeHexString(PadHex(hexData))
    IN  IF decoded.err THEN [err |-> TRUE, parentHashes |-> <<>>]
        ELSE Deserialize(decoded.bytes)

\* The request.Data a client may send: none, a block on [0001] with its
\* leading zero left out, blocks on [0001], on [0001, 0002], on [0002] and on
\* [0002, 0001], three bytes, and digits that are not hexadecimal.
ProposalData ==
    {<<>>,
     <<"0", "0", "1">>,
     <<"0", "0", "0", "1">>,
     <<"0", "0", "0", "1", "0", "0", "0", "2">>,
     <<"0", "0", "0", "2">>,
     <<"0", "0", "0", "2", "0", "0", "0", "1">>,
     <<"0", "0", "0", "1", "0", "0">>,
     <<"z", "z", "0", "1">>}

\* A handler that checks the connection whatever the block's parents are.
ProposalOutcomeWhateverParents(block, tips, checked) ==
    IF checked = NilError
    THEN [outcome |-> "reply", result |-> "null", check |-> checked]
    ELSE IF ~checked.rule
    THEN [outcome |-> "ErrRPCVerify", result |-> "null", check |-> checked]
    ELSE [outcome |-> "reply", result |-> dagErrToGBTErrString(checked),
          check |-> checked]

\* handleGetBlockTemplateProposal for a block that deserialized, the DAG's
\* tips being tips and CheckConnectBlockTemplate returning checked if called.
ProposalOutcome(block, tips, checked) ==
    IF block.parentHashes # tips
    THEN [outcome |-> "reply", result |-> "bad-parentblk", check |-> NotInvoked]
    ELSE IF checked = NilError
    THEN [outcome |-> "reply", result |-> "null", check |-> checked]
    ELSE IF ~checked.rule
    THEN [outcome |-> "ErrRPCVerify", result |-> "null", check |-> checked]
    ELSE [outcome |-> "reply", result |-> dagErrToGBTErrString(checked),
          check |-> checked]

\* handleGetBlockTemplateProposal.
ProposalRequest(hexData, checked) ==
    /\ done = NoOp
    /\ LET decoded == DecodeHexString(PadHex(hexData))
           block == ProposedBlock(hexData)
           r == IF hexData = <<>>
                THEN [outcome |-> "ErrRPCType", result |-> "false", check |-> NotInvoked]
                ELSE IF decoded.err
                THEN [outcome |-> "ErrRPCDeserialization", result |-> "false",
                      check |-> NotInvoked]
                ELSE IF block.err
                THEN [outcome |-> "ErrRPCDeserialization", result |-> "null",
                      check |-> NotInvoked]
                ELSE ProposalOutcome(block, dagTips, checked)
       IN  \* checked is the return of a call; with no call there is none to choose
           /\ r.check = NotInvoked => checked = NilError
           /\ done' = [NoOp EXCEPT !.op = "proposal", !.data = hexData,
                                   !.outcome = r.outcome, !.result = r.result,
                                   !.check = r.check]
    /\ UNCHANGED <<envVars, dagTips, tasks, lastTxUpdate, lastGenerated, tipHashes,
                   minTimestamp, template, notifyMap, payAddress, waiting,
                   chansMade, closeCount>>

(***************************************************************************)
(* The environment and the background closures.                            *)
(***************************************************************************)
Tick ==
    /\ done = NoOp
    /\ ticks < MaxTicks
    /\ ticks' = ticks + 1
    /\ now' = now + TickDelta(ticks)
    /\ UNCHANGED <<done, mempoolLastUpdated, hashStrPadding, dagTips, tasks, lastTxUpdate,
                   lastGenerated, tipHashes, minTimestamp, template, notifyMap,
                   payAddress, waiting, chansMade, closeCount>>

\* A block is added to the DAG: the tips change and NotifyBlockAdded(tips)
\* spawns its closure.
BlockAdded(tips) ==
    /\ done = NoOp
    /\ tips # dagTips
    /\ Cardinality(tasks \cup {BlockAddedTask(tips)}) <= MaxTasks
    /\ dagTips' = tips
    /\ tasks' = tasks \cup {BlockAddedTask(tips)}
    /\ UNCHANGED <<done, envVars, lastTxUpdate, lastGenerated, tipHashes, minTimestamp,
                   template, notifyMap, payAddress, waiting, chansMade,
                   closeCount>>

\* The mempool takes a transaction: its LastUpdated() becomes now and
\* NotifyMempoolTx(lastUpdated) spawns its closure.
MempoolTx ==
    /\ done = NoOp
    /\ Cardinality(tasks \cup {MempoolTxTask(now)}) <= MaxTasks
    /\ mempoolLastUpdated' = now
    /\ tasks' = tasks \cup {MempoolTxTask(now)}
    /\ UNCHANGED <<done, now, ticks, hashStrPadding, dagTips, lastTxUpdate, lastGenerated,
                   tipHashes, minTimestamp, template, notifyMap, payAddress, waiting, chansMade, closeCount>>

\* A closure that also takes the new tips into the work state.
NotifyBlockAddedEager(t) ==
    /\ done = NoOp
    /\ t \in tasks
    /\ t.kind = "blockAdded"
    /\ LET told == notifyLongPollers(notifyMap, closeCount, t.tipHashes, lastTxUpdate)
       IN  /\ notifyMap' = told.notifyMap
           /\ closeCount' = told.closeCount
           /\ done' = [NoOp EXCEPT !.op = "blockAdded",
                                   !.fired = ClosedBy(told.closeCount)]
    /\ tipHashes' = t.tipHashes
    /\ tasks' = tasks \ {t}
    /\ UNCHANGED <<envVars, dagTips, lastTxUpdate, lastGenerated,
                   minTimestamp, template, payAddress, waiting, chansMade>>

\* The closure NotifyBlockAdded spawned.
NotifyBlockAdded(t) ==
    /\ done = NoOp
    /\ t \in tasks
    /\ t.kind = "blockAdded"
    /\ LET told == notifyLongPollers(notifyMap, closeCount, t.tipHashes, lastTxUpdate)
       IN  /\ notifyMap' = told.notifyMap
           /\ closeCount' = told.closeCount
           /\ done' = [NoOp EXCEPT !.op = "blockAdded",
                                   !.fired = ClosedBy(told.closeCount)]
    /\ tasks' = tasks \ {t}
    /\ UNCHANGED <<envVars, dagTips, lastTxUpdate, lastGenerated, tipHashes,
                   minTimestamp, template, payAddress, waiting, chansMade>>

\* Whether the closure of NotifyMempoolTx notifies.
MempoolTxNotifies ==
    /\ ~(tipHashes = NilHashes \/ lastGenerated = ZeroTime)
    /\ now > lastGenerated + gbtRegenerateSeconds * MillisecondsPerSecond

\* The closure NotifyMempoolTx spawned.
NotifyMempoolTx(t) ==
    /\ done = NoOp
    /\ t \in tasks
    /\ t.kind = "mempoolTx"
    /\ IF MempoolTxNotifies
       THEN LET told == notifyLongPollers(notifyMap, closeCount, tipHashes, t.lastUpdated)
            IN  /\ notifyMap' = told.notifyMap
                /\ closeCount' = told.closeCount
                /\ done' = [NoOp EXCEPT !.op = "mempoolTx", !.path = "notify",
                                        !.fired = ClosedBy(told.closeCount)]
       ELSE /\ UNCHANGED <<notifyMap, closeCount>>
            /\ done' = [NoOp EXCEPT !.op = "mempoolTx", !.path = "skip"]
    /\ tasks' = tasks \ {t}
    /\ UNCHANGED <<envVars, dagTips, lastTxUpdate, lastGenerated, tipHashes,
                   minTimestamp, template, payAddress, waiting, chansMade>>

\* The operation the latest step completed has returned to its caller.
Return ==
    /\ done # NoOp
    /\ done' = NoOp
    /\ UNCHANGED <<envVars, dagTips, tasks, lastTxUpdate, lastGenerated, tipHashes,
                   minTimestamp, template, notifyMap, payAddress, waiting, chansMade,
                   closeCount>>

(***************************************************************************)
(* The goroutines step by step: state.Lock(), the critical section, the     *)
(* deferred state.Unlock(), the select of a long-poll request.              *)
(***************************************************************************)
\* A goroutine is "idle" (running nothing), at "Lock" (in state.Lock()),
\* "locked" (past Lock(), its critical section still to run), at "Unlock"
\* (its critical section run, the deferred Unlock() and the return still to
\* come), in "select" (a long-poll request waiting), or at "return" (about to
\* return without holding the lock).
Threads == 1..MaxThreads
Unlocked == 0
NoTask == [kind |-> "none", tipHashes |-> <<>>, lastUpdated |-> ZeroTime]
NoRequest == [kind |-> "none", task |-> NoTask, sub |-> NoSub]

\* The tasks some goroutine is already running.
TakenTasks == {req[th].task : th \in Threads}

\* A request reaches a state.Lock(): handleGetBlockTemplateRequest (line 144)
\* or blockTemplateOrLongPollChan (line 216).
BeginRequest(th, kind) ==
    /\ pc[th] = "idle"
    /\ pc' = [pc EXCEPT ![th] = "Lock"]
    /\ req' = [req EXCEPT ![th] = [NoRequest EXCEPT !.kind = kind]]
    /\ UNCHANGED <<envVars, dagTips, tasks, lastTxUpdate, lastGenerated, tipHashes,
                   minTimestamp, template, notifyMap, payAddress, waiting,
                   chansMade, closeCount, done, mutex>>

\* A spawned closure starts and reaches its state.Lock() (lines 456, 469).
BeginClosure(th, t) ==
    /\ pc[th] = "idle"
    /\ t \in tasks \ TakenTasks
    /\ pc' = [pc EXCEPT ![th] = "Lock"]
    /\ req' = [req EXCEPT ![th] = [NoRequest EXCEPT !.kind = "closure", !.task = t]]
    /\ UNCHANGED <<envVars, dagTips, tasks, lastTxUpdate, lastGenerated, tipHashes,
                   minTimestamp, template, notifyMap, payAddress, waiting,
                   chansMade, closeCount, done, mutex>>

\* A Lock() that does not wait for the mutex to be free.
LockWithoutWaiting(th) ==
    /\ pc[th] = "Lock"
    /\ mutex' = th
    /\ pc' = [pc EXCEPT ![th] = "locked"]
    /\ UNCHANGED <<envVars, dagTips, tasks, lastTxUpdate, lastGenerated, tipHashes,
                   minTimestamp, template, notifyMap, payAddress, waiting,
                   chansMade, closeCount, done, req>>

\* state.Lock() returns: the mutex was free and is taken.
Lock(th) ==
    /\ pc[th] = "Lock"
    /\ mutex = Unlocked
    /\ mutex' = th
    /\ pc' = [pc EXCEPT ![th] = "locked"]
    /\ UNCHANGED <<envVars, dagTips, tasks, lastTxUpdate, lastGenerated, tipHashes,
                   minTimestamp, template, notifyMap, payAddress, waiting,
                   chansMade, closeCount, done, req>>

\* The code between a Lock() and its deferred Unlock(), by what the goroutine
\* is running.
CriticalSection(th) ==
    /\ pc[th] = "locked"
    /\ \/ /\ req[th].kind = "template"
          /\ \E addr \in Addresses, outOfRange \in BOOLEAN :
                TemplateRequest(addr, outOfRange)
       \/ /\ req[th].kind = "longpoll"
          /\ \E id \in ClientLongPollIDs, addr \in Addresses, outOfRange \in BOOLEAN :
                LongPollRequest(id, addr, outOfRange)
       \/ /\ req[th].kind = "woken"
          /\ \E outOfRange \in BOOLEAN : WokenRequest(req[th].sub, outOfRange)
       \/ /\ req[th].kind = "closure"
          /\ \/ NotifyBlockAdded(req[th].task)
             \/ NotifyMempoolTx(req[th].task)
    /\ pc' = [pc EXCEPT ![th] = "Unlock"]
    /\ req' = [req EXCEPT ![th].sub = done'.sub]
    /\ UNCHANGED mutex

\* A deferred Unlock() that is skipped when the handler returns an error.
UnlockUnlessError(th) ==
    /\ pc[th] = "Unlock"
    /\ Return
    /\ mutex' = IF done.outcome \in {"ErrRPCInternal", "ErrRPCOutOfRange"}
                THEN mutex ELSE Unlocked
    /\ pc' = [pc EXCEPT ![th] = IF done.outcome = "suspend" THEN "select" ELSE "idle"]
    /\ req' = [req EXCEPT ![th] = IF done.outcome = "suspend" THEN @ ELSE NoRequest]

\* The deferred state.Unlock() and the return of the function that locked:
\* a long-poll request given a channel goes on to its select, everything
\* else is over.
Unlock(th) ==
    /\ pc[th] = "Unlock"
    /\ Return
    /\ mutex' = Unlocked
    /\ pc' = [pc EXCEPT ![th] = IF done.outcome = "suspend" THEN "select" ELSE "idle"]
    /\ req' = [req EXCEPT ![th] = IF done.outcome = "suspend" THEN @ ELSE NoRequest]

\* case <-longPollChan: the request goes on to the state.Lock() of line 191.
Woken(th) ==
    /\ pc[th] = "select"
    /\ closeCount[req[th].sub.chan] > 0
    /\ pc' = [pc EXCEPT ![th] = "Lock"]
    /\ req' = [req EXCEPT ![th].kind = "woken"]
    /\ UNCHANGED <<envVars, dagTips, tasks, lastTxUpdate, lastGenerated, tipHashes,
                   minTimestamp, template, notifyMap, payAddress, waiting,
                   chansMade, closeCount, done, mutex>>

\* case <-closeChan, taken whether or not the channel is closed too.
Quit(th) ==
    /\ pc[th] = "select"
    /\ ClientQuit(req[th].sub)
    /\ pc' = [pc EXCEPT ![th] = "return"]
    /\ req' = [req EXCEPT ![th] = NoRequest]
    /\ UNCHANGED mutex

\* The proposals followed lock step by lock step: no data, digits that are
\* not hexadecimal, and a block on [0001]; CheckConnectBlockTemplate returning
\* no error, a rule error and another error.
LocklessData == {<<>>, <<"z", "z", "0", "1">>, hashA}
LocklessChecks == {NilError, RuleError("ErrHighHash")} \cup OtherErrors

\* A proposal handler that takes the mutex.
LocklessTakesMutex(th) ==
    /\ pc[th] = "idle"
    /\ \/ RequestRefused
       \/ \E hexData \in LocklessData, checked \in LocklessChecks :
             ProposalRequest(hexData, checked)
    /\ pc' = [pc EXCEPT ![th] = "return"]
    /\ mutex' = IF done'.op = "proposal" THEN th ELSE mutex
    /\ UNCHANGED req

\* A request that never reaches a Lock(): one refused before line 144, or a
\* proposal.
Lockless(th) ==
    /\ pc[th] = "idle"
    /\ \/ RequestRefused
       \/ \E hexData \in LocklessData, checked \in LocklessChecks :
             ProposalRequest(hexData, checked)
    /\ pc' = [pc EXCEPT ![th] = "return"]
    /\ UNCHANGED <<mutex, req>>

\* The return of a goroutine that holds no lock.
ReturnUnlocked(th) ==
    /\ pc[th] = "return"
    /\ Return
    /\ pc' = [pc EXCEPT ![th] = "idle"]
    /\ UNCHANGED <<mutex, req>>

(***************************************************************************)
(* The specification.                                                      *)
(***************************************************************************)
\* newGbtWorkState(), an idle server and a DAG with some tips.
Init ==
    /\ now = StartTime
    /\ ticks = 0
    /\ dagTips \in TipSets
    /\ mempoolLastUpdated = ZeroTime
    /\ tasks = {}
    /\ hashStrPadding \in BOOLEAN
    /\ lastTxUpdate = ZeroTime
    /\ lastGenerated = ZeroTime
    /\ tipHashes = NilHashes
    /\ minTimestamp = ZeroTime
    /\ template = NoTemplate
    /\ notifyMap = EmptyMap
    /\ payAddress = NilAddress
    /\ waiting = EmptyBag
    /\ chansMade = 0
    /\ closeCount = [c \in 1..MaxChans |-> 0]
    /\ done = NoOp
    /\ mutex = Unlocked
    /\ pc = [th \in Threads |-> "idle"]
    /\ req = [th \in Threads |-> NoRequest]
    /\ generations = <<>>

Next ==
    \/ Tick /\ UNCHANGED stillVars
    \/ \E tips \in TipSets : BlockAdded(tips) /\ UNCHANGED stillVars
    \/ MempoolTx /\ UNCHANGED stillVars
    \/ \E t \in tasks : NotifyBlockAdded(t) /\ UNCHANGED stillVars
    \/ \E t \in tasks : NotifyMempoolTx(t) /\ UNCHANGED stillVars
    \/ RequestRefused /\ UNCHANGED stillVars
    \/ \E addr \in Addresses, outOfRange \in BOOLEAN :
          TemplateRequest(addr, outOfRange) /\ UNCHANGED stillVars
    \/ \E id \in ClientLongPollIDs, addr \in Addresses, outOfRange \in BOOLEAN :
          LongPollRequest(id, addr, outOfRange) /\ UNCHANGED stillVars
    \/ \E s \in BagToSet(waiting) : ClientQuit(s) /\ UNCHANGED stillVars
    \/ \E s \in BagToSet(waiting), outOfRange \in BOOLEAN :
          WokenRequest(s, outOfRange) /\ UNCHANGED stillVars
    \/ Return /\ UNCHANGED stillVars

Spec == Init /\ [][Next]_vars

\* Block proposals against a DAG that takes blocks: the proposal handler reads
\* the DAG only, so the template requests are left out.
NextProposal ==
    \/ Tick /\ UNCHANGED stillVars
    \/ \E tips \in TipSets : BlockAdded(tips) /\ UNCHANGED stillVars
    \/ \E t \in tasks : NotifyBlockAdded(t) /\ UNCHANGED stillVars
    \/ \E hexData \in ProposalData, checked \in CheckConnectBlockTemplate :
          ProposalRequest(hexData, checked) /\ UNCHANGED stillVars
    \/ Return /\ UNCHANGED stillVars

SpecProposal == Init /\ [][NextProposal]_vars

\* The handlers and closures run by MaxThreads goroutines, lock step by lock
\* step, at one instant of the clock.
NextMutex ==
    \/ \E tips \in TipSets : BlockAdded(tips) /\ UNCHANGED stillVars
    \/ MempoolTx /\ UNCHANGED stillVars
    \/ \E th \in Threads, kind \in {"template", "longpoll"} : BeginRequest(th, kind) /\ UNCHANGED generations
    \/ \E th \in Threads, t \in tasks : BeginClosure(th, t) /\ UNCHANGED generations
    \/ \E th \in Threads : Lock(th) /\ UNCHANGED generations
    \/ \E th \in Threads : CriticalSection(th) /\ UNCHANGED generations
    \/ \E th \in Threads : Unlock(th) /\ UNCHANGED generations
    \/ \E th \in Threads : Woken(th) /\ UNCHANGED generations
    \/ \E th \in Threads : Quit(th) /\ UNCHANGED generations
    \/ \E th \in Threads : Lockless(th) /\ UNCHANGED generations
    \/ \E th \in Threads : ReturnUnlocked(th) /\ UNCHANGED generations

SpecMutex == Init /\ [][NextMutex]_vars

\* dagErrToGBTErrString called with every error.
NextRejection ==
    \/ \E err \in RejectionInputs : RejectionString(err) /\ UNCHANGED stillVars
    \/ Return /\ UNCHANGED stillVars

SpecRejection == Init /\ [][NextRejection]_vars

\* blockTemplateResult building the transaction list of every template.
NextTransactions ==
    \/ \E blockTemplate \in BlockTemplates :
          TransactionList(blockTemplate) /\ UNCHANGED stillVars
    \/ Return /\ UNCHANGED stillVars

SpecTransactions == Init /\ [][NextTransactions]_vars

\* The step of updateBlockTemplate that commits a regeneration adds what it
\* committed to the history; any other step leaves the history as it is.
RecordGeneration ==
    /\ done'.path = "regen" => Len(generations) < MaxGenerations
    /\ generations' =
          IF done'.path = "regen"
          THEN Append(generations,
                      [tipHashes |-> tipHashes', payAddress |-> payAddress',
                       lastGenerated |-> lastGenerated',
                       longPollID |-> encodeLongPollID(tipHashes', payAddress',
                                                       lastGenerated')])
          ELSE generations

\* Template requests with the history of the regenerations they cause.
NextGenerations ==
    \/ Tick /\ UNCHANGED stillVars
    \/ \E tips \in TipSets : BlockAdded(tips) /\ UNCHANGED stillVars
    \/ \E t \in tasks : NotifyBlockAdded(t) /\ UNCHANGED stillVars
    \/ \E addr \in Addresses, outOfRange \in BOOLEAN :
          TemplateRequest(addr, outOfRange) /\ RecordGeneration /\ UNCHANGED lockVars
    \/ Return /\ UNCHANGED stillVars

SpecGenerations == Init /\ [][NextGenerations]_vars

\* The tip sets of a DAG that takes two blocks one after the other, oldest
\* first: a block that has got a child is a tip no more, so a tip set that
\* was left does not come back.
hashC == <<"0", "0", "0", "3">>
TipChain == <<<<hashA>>, <<hashA, hashB>>, <<hashC>>>>
TipAge(tips) == CHOOSE k \in 1..Len(TipChain) : TipChain[k] = tips

\* The DAG's tips after a step are those before it or later ones.
TipsGrow == TipAge(dagTips') >= TipAge(dagTips)

\* A block is added to the DAG and NotifyBlockAdded(tips) spawns its closure,
\* whether or not the closures of the blocks before have run.
BlockAddedNext ==
    /\ done = NoOp
    /\ TipAge(dagTips) < Len(TipChain)
    /\ dagTips' = TipChain[TipAge(dagTips) + 1]
    /\ tasks' = tasks \cup {BlockAddedTask(dagTips')}
    /\ UNCHANGED <<done, envVars, lastTxUpdate, lastGenerated, tipHashes, minTimestamp,
                   template, notifyMap, payAddress, waiting, chansMade,
                   closeCount>>

\* The two-field IDs that name a tip set of the chain and the current second.
ChainLongPollIDs ==
    {SecondHalves(TipChain[k]) \o <<"-">> \o FormatInt(UnixSeconds(now)) :
        k \in 1..Len(TipChain)}

\* Long-poll requests and the closures of NotifyBlockAdded, run in any order,
\* at one instant of the clock, on a DAG whose tips do not come back.
NextWake ==
    \/ BlockAddedNext /\ UNCHANGED stillVars
    \/ \E t \in tasks : NotifyBlockAdded(t) /\ UNCHANGED stillVars
    \/ \E id \in ChainLongPollIDs, addr \in Addresses, outOfRange \in BOOLEAN :
          LongPollRequest(id, addr, outOfRange) /\ TipsGrow /\ UNCHANGED stillVars
    \/ \E s \in BagToSet(waiting), outOfRange \in BOOLEAN :
          WokenRequest(s, outOfRange) /\ TipsGrow /\ UNCHANGED stillVars
    \/ Return /\ UNCHANGED stillVars

SpecWake == Init /\ [][NextWake]_vars


(***************************************************************************)
(* Vocabulary of the properties.                                           *)
(***************************************************************************)
\* The (tip-hashes string, generation second) places of a registry.
Places(map) == UNION {{<<h, g>> : g \in DOMAIN map[h]} : h \in DOMAIN map}

\* The place a waiting request registered under.
PlaceOf(s) == <<JoinHashesStrings(s.tipHashes), s.lastGenerated>>

\* The channel has been closed.
Fired(c) == closeCount[c] > 0

\* The latest step completed a long-poll request's blockTemplateOrLongPollChan.
LongPollDone == done.op = "longpoll"

(***************************************************************************)
(* Long-poll IDs.                                                          *)
(***************************************************************************)
\* C1: a long-poll request that supplies the long-poll ID replies carry for
\* the template in force, with the committed pay address, while the tips are
\* unchanged and no regeneration is due (the update took the refresh path), is
\* not answered: it suspends, registered under (tip hashes, lastGenerated in
\* seconds) of the work state.
C1_MintedIDSuspends ==
    (LongPollDone /\ done.path = "refresh" /\ done.longPollID = CurrentLongPollID)
        => /\ done.outcome = "suspend"
           /\ done.sub.tipHashes = tipHashes
           /\ done.sub.lastGenerated = UnixSeconds(lastGenerated)
           /\ PlaceOf(done.sub) \in Places(notifyMap)

\* C2: decodeLongPollID(encodeLongPollID(h, a, t)) succeeds and gives back h and
\* t in Unix seconds, for the tip hashes, pay address and generation time of
\* every committed template.
C2_RoundTrip ==
    (template # NoTemplate /\ tipHashes # NilHashes)
        => LET decoded == decodeLongPollID(
                              encodeLongPollID(tipHashes, payAddress, lastGenerated))
           IN  /\ ~decoded.err
               /\ decoded.parentHashes = tipHashes
               /\ decoded.lastGenerated = UnixSeconds(lastGenerated)

\* C3: a long-poll request whose ID does not decode never suspends and
\* registers nothing: the registry gains no place, no channel is made and no
\* request is added to those waiting; it is answered with the reply unless
\* the update failed or the template time is out of range.
C3_UndecodableIDReturnsNow ==
    [][(done'.op = "longpoll" /\ done = NoOp /\ decodeLongPollID(done'.longPollID).err)
          => /\ done'.outcome \in {"reply", "ErrRPCInternal", "ErrRPCOutOfRange"}
             /\ done'.outcome = "ErrRPCInternal" <=> done'.path = "fail"
             /\ Places(notifyMap') \subseteq Places(notifyMap)
             /\ chansMade' = chansMade
             /\ waiting' = waiting]_vars

\* A malformed ID (a hash field that is not hexadecimal, a second that is no
\* integer) was answered with the reply.
C3_Witness ==
    /\ LongPollDone
    /\ done.outcome = "reply"
    /\ decodeLongPollID(done.longPollID).err
    /\ done.longPollID \in MalformedIDs

\* C4: a long-poll request whose ID decodes to tip hashes other than the work
\* state's tipHashes, or to a second other than the committed lastGenerated in
\* seconds, does not suspend and is registered nowhere; its reply carries the
\* parent hashes of the template in force.
C4_StaleIDReturnsNow ==
    LET decoded == decodeLongPollID(done.longPollID)
    IN  (/\ LongPollDone
         /\ ~decoded.err
         /\ \/ decoded.parentHashes # tipHashes
            \/ decoded.lastGenerated # UnixSeconds(lastGenerated))
            => /\ done.outcome # "suspend"
               /\ done.sub = NoSub

(***************************************************************************)
(* The notification registry.                                              *)
(***************************************************************************)
\* The channel stored at a place of the registry.
ChannelAt(map, p) == map[p[1]][p[2]]

\* C5: no channel is closed more than once; every channel in notifyMap is
\* unclosed (a channel is deleted in the critical section that closes it), so
\* a subscription never returns a closed channel; and the channel of every
\* waiting request is closed, which releases the request, or is still the one
\* registered at the request's place.
C5_OneShotSignals ==
    /\ \A c \in DOMAIN closeCount : closeCount[c] <= 1
    /\ \A p \in Places(notifyMap) : ~Fired(ChannelAt(notifyMap, p))
    /\ (LongPollDone /\ done.outcome = "suspend") => ~Fired(done.sub.chan)
    /\ \A s \in BagToSet(waiting) :
          \/ Fired(s.chan)
          \/ /\ PlaceOf(s) \in Places(notifyMap)
             /\ ChannelAt(notifyMap, PlaceOf(s)) = s.chan

\* A step closed the channel two requests wait on, and deleted it.
C5_Witness ==
    \E s1, s2 \in BagToSet(waiting) :
        /\ s1.payAddr # s2.payAddr
        /\ s1.chan = s2.chan
        /\ s1.chan \in done.fired
        /\ PlaceOf(s1) \notin Places(notifyMap)

\* C6: no tip-hashes entry of notifyMap has an empty inner map.
C6_NoEmptyInnerMap == \A h \in DOMAIN notifyMap : DOMAIN notifyMap[h] # {}

\* The closure of NotifyMempoolTx closed the last channel registered, one
\* under the current tip hashes, and the registry is left empty.
C6_Witness ==
    /\ done.op = "mempoolTx"
    /\ done.fired # {}
    /\ \E s \in BagToSet(waiting) : s.chan \in done.fired /\ s.tipHashes = tipHashes
    /\ notifyMap = EmptyMap

\* C7: the subscription of a long-poll request returns the channel already
\* registered at its (tip hashes, second) place when there is one, and
\* otherwise makes one channel and registers it there; it leaves every other
\* place as the update before it left it (the places whose channel that update
\* did not close).  Waiting requests with different places hold different
\* channels, and unreleased ones with the same place hold the same channel.
C7_SubscribeSharesSignals ==
    [][(done = NoOp /\ done'.op = "longpoll" /\ done'.outcome = "suspend")
          => LET s == done'.sub
                 p == PlaceOf(s)
                 kept == {q \in Places(notifyMap) :
                            closeCount'[ChannelAt(notifyMap, q)]
                                = closeCount[ChannelAt(notifyMap, q)]}
             IN  /\ Places(notifyMap') = kept \cup {p}
                 /\ \A q \in kept : ChannelAt(notifyMap', q) = ChannelAt(notifyMap, q)
                 /\ ChannelAt(notifyMap', p) = s.chan
                 /\ IF p \in kept
                    THEN chansMade' = chansMade
                    ELSE /\ chansMade' = chansMade + 1
                         /\ s.chan = chansMade'
                         /\ \A q \in kept : ChannelAt(notifyMap, q) # s.chan
                 /\ \A s1, s2 \in BagToSet(waiting') :
                       /\ PlaceOf(s1) # PlaceOf(s2) => s1.chan # s2.chan
                       /\ (/\ PlaceOf(s1) = PlaceOf(s2)
                           /\ closeCount'[s1.chan] = 0
                           /\ closeCount'[s2.chan] = 0) => s1.chan = s2.chan]_vars

\* A request was given the channel another request already waits on, while a
\* second channel had been made for another place.
C7_Witness ==
    /\ LongPollDone
    /\ done.outcome = "suspend"
    /\ \E s \in BagToSet(waiting) :
          s.payAddr # done.sub.payAddr /\ s.chan = done.sub.chan
    /\ chansMade = 2

\* What a step that runs notifyLongPollers(tips, time) on the registry does:
\* it closes once, and deletes, the channel of every place under another
\* tip-hashes string and, when time is not zero, of every place under the tips'
\* string whose second is less than time in seconds; every other place keeps
\* its channel, unclosed.  added is the place a subscription in the same step
\* registers afterwards.
NotifiedExactly(tips, time, added) ==
    LET tipHashesStr == JoinHashesStrings(tips)
        toFire == {p \in Places(notifyMap) :
                      \/ p[1] # tipHashesStr
                      \/ time # ZeroTime /\ p[2] < UnixSeconds(time)}
        firedChans == {ChannelAt(notifyMap, p) : p \in toFire}
    IN  /\ \A c \in DOMAIN closeCount :
              closeCount'[c] = closeCount[c] + (IF c \in firedChans THEN 1 ELSE 0)
        /\ Places(notifyMap') \ added = (Places(notifyMap) \ toFire) \ added
        /\ \A p \in (Places(notifyMap) \ toFire) \ added :
              ChannelAt(notifyMap', p) = ChannelAt(notifyMap, p)

\* C8: every notification (by the closure of NotifyBlockAdded, by the closure
\* of NotifyMempoolTx when it notifies, by a regeneration) fires and removes
\* exactly the places of the other tip-hashes strings and, for a non-zero time,
\* the places of the current string with a second strictly less than the
\* time's; all other places stay, unfired.
C8_NotifyPostcondition ==
    [][/\ (done = NoOp /\ done'.op = "blockAdded")
             => \A t \in tasks \ tasks' :
                   NotifiedExactly(t.tipHashes, lastTxUpdate, {})
       /\ (done = NoOp /\ done'.op = "mempoolTx" /\ done'.path = "notify")
             => \A t \in tasks \ tasks' :
                   NotifiedExactly(tipHashes, t.lastUpdated, {})
       /\ (done = NoOp /\ done'.path = "regen")
             => NotifiedExactly(tipHashes', lastTxUpdate',
                                IF done'.outcome = "suspend"
                                THEN {PlaceOf(done'.sub)} ELSE {})]_vars

\* A notification closed the channel of one place and left another place of
\* the same tip hashes registered.
C8_Witness ==
    /\ done.fired # {}
    /\ done.outcome # "suspend"
    /\ \E s \in BagToSet(waiting), p \in Places(notifyMap) :
          /\ s.chan \in done.fired
          /\ p[1] = JoinHashesStrings(s.tipHashes)
          /\ s.lastGenerated < p[2]

(***************************************************************************)
(* Waking the long-pollers.                                                *)
(***************************************************************************)
\* The place of the template in force.
CommittedPlace == <<JoinHashesStrings(tipHashes), UnixSeconds(lastGenerated)>>

\* C9: right after a regeneration commits, every request that was waiting
\* before it under a place other than the committed (tip hashes, lastGenerated
\* in seconds) has had its channel closed.
C9_RegenerationWakesStale ==
    [][(done = NoOp /\ done'.path = "regen")
          => \A s \in BagToSet(waiting) :
                PlaceOf(s) # CommittedPlace' => closeCount'[s.chan] > 0]_vars

\* The request s waits on the template in force, generated at second
\* s.lastGenerated on tips the DAG still has, that template is more than
\* gbtRegenerateSeconds old, and the mempool time is in a later second.
WaitsOnOldTemplate(s, mempoolTime) ==
    /\ s.tipHashes = template.parentHashes
    /\ s.tipHashes = dagTips
    /\ s.lastGenerated = UnixSeconds(lastGenerated)
    /\ now > lastGenerated + gbtRegenerateSeconds * MillisecondsPerSecond
    /\ UnixSeconds(mempoolTime) > s.lastGenerated

\* C10: when the closure of NotifyMempoolTx runs more than 60 s after the
\* template in force was generated, with a time later than its generation
\* second and the tips unchanged, every request waiting on that template has
\* its channel closed; and the reply such a request gives once woken comes
\* from a new regeneration, committed in a later second.
C10_MempoolWakes ==
    [][/\ (done = NoOp /\ done'.op = "mempoolTx")
             => \A t \in tasks \ tasks', s \in BagToSet(waiting) :
                   WaitsOnOldTemplate(s, t.lastUpdated) => closeCount'[s.chan] > 0
       /\ (done = NoOp /\ done'.op = "woken" /\ done'.outcome = "reply"
              /\ WaitsOnOldTemplate(done'.sub, mempoolLastUpdated))
             => /\ done'.path = "regen"
                /\ UnixSeconds(lastGenerated') > done'.sub.lastGenerated]_vars

(***************************************************************************)
(* The background closures and the client's cancel.                        *)
(***************************************************************************)
\* The latest step completed a request: a template request, a long-poll
\* request up to its select, or a long-poll request after its wake.
RequestOps == {"template", "longpoll", "woken"}

\* C11: the closure of NotifyBlockAdded only runs notifyLongPollers(its tips,
\* lastTxUpdate): template, tipHashes, lastGenerated, lastTxUpdate,
\* minTimestamp and payAddress stay as they are.  The template changes only in
\* a request's step, and a request that finds the DAG's tips different from
\* tipHashes regenerates.
C11_BlockAddedIsLazy ==
    [][/\ (done = NoOp /\ done'.op = "blockAdded")
             => /\ UNCHANGED <<template, tipHashes, lastGenerated, lastTxUpdate,
                               minTimestamp, payAddress>>
                /\ \A t \in tasks \ tasks' :
                      NotifiedExactly(t.tipHashes, lastTxUpdate, {})
       /\ template' # template => done'.op \in RequestOps
       /\ (done = NoOp /\ done'.op \in RequestOps /\ tipHashes # dagTips)
             => done'.path \in {"regen", "fail"}]_vars

\* The closure released a waiting request and left a template built on other
\* tips than the DAG's in force.
C11_Witness ==
    /\ done.op = "blockAdded"
    /\ done.fired # {}
    /\ template # NoTemplate
    /\ template.parentHashes # dagTips
    /\ tipHashes # dagTips

\* The work-state fields other than the notification map.
workFields == <<template, tipHashes, lastGenerated, lastTxUpdate, minTimestamp,
                payAddress>>

Orphans(map, w) ==
    {p \in Places(map) : \A s \in BagToSet(w) : s.chan # ChannelAt(map, p)}

\* C13: the cancel of a suspended long-poll request ends it with ErrClientQuit
\* and no reply, and changes neither notifyMap nor any other field of the work
\* state nor any channel; a channel left registered with no request waiting
\* on it stays registered and unclosed until a step closes it once and
\* deletes it from the registry.
C13_ClientCancel ==
    [][/\ (done = NoOp /\ done'.op = "quit")
             => /\ done'.outcome = "ErrClientQuit"
                /\ BagIn(done'.sub, waiting)
                /\ waiting' = waiting (-) SetToBag({done'.sub})
                /\ UNCHANGED <<workFields, notifyMap, closeCount, chansMade, tasks>>
       /\ \A p \in Orphans(notifyMap, waiting) :
             LET c == ChannelAt(notifyMap, p)
             IN  \/ /\ p \in Places(notifyMap')
                    /\ ChannelAt(notifyMap', p) = c
                    /\ closeCount'[c] = 0
                 \/ /\ closeCount'[c] = 1
                    /\ \A q \in Places(notifyMap') : ChannelAt(notifyMap', q) # c]_vars

\* A closure closed a channel that no request waits on any more: the only
\* request registered under it had been cancelled.
C13_Witness ==
    /\ done.op \in {"blockAdded", "mempoolTx"}
    /\ \E c \in done.fired : \A s \in BagToSet(waiting) : s.chan # c

C15_GenerationMonotone ==
    [][/\ lastGenerated' >= lastGenerated
       /\ lastGenerated' <= now'
       /\ (done = NoOp /\ done'.path = "regen") => lastGenerated' = now
       /\ (done = NoOp /\ done'.path # "regen") => lastGenerated' = lastGenerated]_vars

\* A woken request regenerated the template in a later second than the
\* generation second it was registered under.
C15_Witness ==
    /\ done.op = "woken"
    /\ done.path = "regen"
    /\ UnixSeconds(lastGenerated) > done.sub.lastGenerated
    /\ done.sub.lastGenerated > 0

\* C16: a request whose regeneration fails ends with the internal error,
\* leaves tipHashes empty, leaves template, lastGenerated, lastTxUpdate,
\* minTimestamp, payAddress and notifyMap as they are and closes no channel;
\* and while tipHashes is empty every request takes the regeneration path,
\* never the refresh path, whatever the tips, the address, the mempool's time
\* and the clock.
C16_FailedRegeneration ==
    [][/\ (done = NoOp /\ done'.path = "fail")
             => /\ done'.op \in RequestOps
                /\ done'.outcome = "ErrRPCInternal"
                /\ tipHashes' = NilHashes
                /\ UNCHANGED <<template, lastGenerated, lastTxUpdate, minTimestamp,
                               payAddress, notifyMap, closeCount>>
                /\ done'.fired = {}
       /\ (done = NoOp /\ tipHashes = NilHashes /\ done'.op \in RequestOps)
             => done'.path \in {"regen", "fail"}]_vars

\* A regeneration failed although the template in force is built on the
\* DAG's tips for the requested address and is less than 60 s old: the
\* request before it had failed too; a request is waiting meanwhile.
C16_Witness ==
    /\ done.op = "template"
    /\ done.path = "fail"
    /\ template # NoTemplate
    /\ template.parentHashes = dagTips
    /\ done.payAddr = payAddress
    /\ now < lastGenerated + gbtRegenerateSeconds * MillisecondsPerSecond
    /\ waiting # EmptyBag
    /\ tipHashes = NilHashes

\* C19: when a request is answered with a template (a template request, a
\* long-poll request answered at once, a woken long-poll request), or has
\* suspended, payAddress is the pay address of that request; a request takes
\* the refresh path only with the committed address, so one with another
\* address regenerates.
C19_ReplyForRequestedAddress ==
    (done.op \in RequestOps /\ (done.outcome \in {"reply", "suspend"} \/ done.path = "refresh"))
        => /\ payAddress = done.payAddr
           /\ AddressString(payAddress) = AddressString(done.payAddr)

\* A woken request was answered from a template regenerated for its address
\* while a request with the other address is still waiting.
C19_Witness ==
    /\ done.op = "woken"
    /\ done.outcome = "reply"
    /\ done.path = "regen"
    /\ \E s \in BagToSet(waiting) : s.payAddr # done.payAddr /\ ~Fired(s.chan)

(***************************************************************************)
(* Block proposals.                                                        *)
(***************************************************************************)
\* The latest step completed a proposal whose data deserialized to a block.
ProposalOfBlock == done.op = "proposal" /\ ~ProposedBlock(done.data).err

\* C20: a proposal whose block deserializes and whose parent hashes are not
\* the DAG's tips is answered "bad-parentblk" with no RPC error and without a
\* call of CheckConnectBlockTemplate; otherwise CheckConnectBlockTemplate is
\* called and the answer is null when it returns no error, the string
\* dagErrToGBTErrString gives for a rule error, both with no RPC error, and
\* the RPC error ErrRPCVerify for any other error.
C20_ProposalOutcome ==
    ProposalOfBlock =>
        IF ProposedBlock(done.data).parentHashes # dagTips
        THEN /\ done.result = "bad-parentblk"
             /\ done.outcome = "reply"
             /\ done.check = NotInvoked
        ELSE /\ done.check \in CheckConnectBlockTemplate
             /\ done.check = NilError
                   => done.result = "null" /\ done.outcome = "reply"
             /\ done.check.rule
                   => /\ done.result = dagErrToGBTErrString(done.check)
                      /\ done.result # "null"
                      /\ done.outcome = "reply"
             /\ (done.check # NilError /\ ~done.check.rule)
                   => done.outcome = "ErrRPCVerify"

\* A proposal on the DAG's two tips, sent after a block was added, was
\* rejected with the string of a rule error.
C20_Witness ==
    /\ ProposalOfBlock
    /\ Len(dagTips) = 2
    /\ ProposedBlock(done.data).parentHashes = dagTips
    /\ done.check = RuleError("ErrHighHash")
    /\ done.result = "high-hash"
    /\ tasks # {}

(***************************************************************************)
(* The mutex.                                                              *)
(***************************************************************************)
\* The operations that read or write the fields of the work state.
LockedOps == RequestOps \cup {"blockAdded", "mempoolTx"}

\* The goroutines between their Lock() and the end of their Unlock().
InCriticalSection == {th \in Threads : pc[th] \in {"locked", "Unlock"}}

\* C17: a goroutine between its Lock() and its Unlock() holds the mutex, so at
\* most one is there at a time; every step that runs a handler's or a
\* closure's code on the work state is taken by the goroutine holding the
\* mutex, inside its critical section; and no other step changes template,
\* tipHashes, lastGenerated, lastTxUpdate, minTimestamp, payAddress or
\* notifyMap.
C17_MutualExclusion ==
    /\ [](/\ \A th \in InCriticalSection : mutex = th
          /\ Cardinality(InCriticalSection) <= 1)
    /\ [][/\ (done = NoOp /\ done'.op \in LockedOps)
                => /\ mutex \in Threads
                   /\ mutex' = mutex
                   /\ pc[mutex] = "locked"
                   /\ pc'[mutex] = "Unlock"
          /\ (workFields' # workFields \/ notifyMap' # notifyMap)
                => (done = NoOp /\ done'.op \in LockedOps)]_vars

\* A closure waits in Lock() while a request that regenerated the template
\* is still to unlock.
C17_Witness ==
    \E th1, th2 \in Threads :
        /\ pc[th1] = "Lock"
        /\ req[th1].kind = "closure"
        /\ pc[th2] = "Unlock"
        /\ mutex = th2
        /\ done.path = "regen"

\* C18: the mutex is never held by a goroutine that is suspended in its
\* select, has returned, is returning without a lock or has not locked yet:
\* whoever holds it is inside a critical section.  Every Unlock step frees
\* it, whatever the request's outcome; a woken request runs its update
\* holding the mutex again; a cancel leaves the mutex alone.
C18_MutexReleased ==
    /\ [](/\ \A th \in Threads \ InCriticalSection : mutex # th
          /\ mutex # Unlocked => mutex \in InCriticalSection)
    /\ [][/\ \A th \in Threads :
                (pc[th] = "Unlock" /\ pc'[th] # "Unlock")
                   => /\ mutex' = Unlocked
                      /\ pc'[th] \in {"select", "idle"}
                      /\ pc'[th] = "select" <=> done.outcome = "suspend"
          /\ (done = NoOp /\ done'.op = "woken")
                => /\ mutex \in Threads
                   /\ req[mutex].kind = "woken"
                   /\ pc[mutex] = "locked"
          /\ (done = NoOp /\ done'.op = "quit")
                => /\ UNCHANGED mutex
                   /\ \E th \in Threads \ {mutex} :
                         pc[th] = "select" /\ pc'[th] = "return"]_vars

\* A woken request is inside its second critical section while another
\* request is suspended in its select.
C18_Witness ==
    \E th1, th2 \in Threads :
        /\ pc[th1] = "select"
        /\ pc[th2] = "locked"
        /\ req[th2].kind = "woken"
        /\ mutex = th2

(***************************************************************************)
(* Rejection strings.                                                      *)
(***************************************************************************)
\* The closed set of fixed rejection strings.
RejectionStrings ==
    {"duplicate", "bad-blk-mass", "bad-version", "time-too-old", "time-too-new",
     "bad-diffbits", "high-hash", "bad-txnmrklroot", "finality-point-time-too-old",
     "bad-txns-none", "bad-txns-noinputs", "bad-txns-mass", "bad-txns-outputvalue",
     "bad-txns-dupinputs", "bad-txns-badinput", "bad-txns-missinginput",
     "bad-txns-unfinalizedtx", "bad-txns-duplicate", "bad-txns-overwrite",
     "bad-txns-maturity", "bad-txns-highspend", "bad-txns-fees", "high-sigops",
     "bad-txns-nocoinbase", "bad-txns-multicoinbase", "bad-cb-length",
     "bad-script-malformed", "bad-script-validate", "parent-blk-not-found",
     "bad-parentblk", "inconclusive-not-best-parentblk"}

\* The strings that are "rejected: " followed by an error text.
RejectedWithText == {"rejected: " \o t : t \in ErrorTexts}

\* C21: dagErrToGBTErrString gives a string of the closed set for every rule
\* error whose code has a case ("high-hash" for ErrHighHash, "bad-diffbits"
\* for both difficulty codes), and "rejected: " followed by the error's text
\* for every error that is no RuleError and every rule error whose code has
\* no case; so its result is always in the closed set or begins with
\* "rejected: ".
C21_RejectionMappingTotal ==
    done.op = "rejection" =>
        /\ (done.check.rule /\ done.check.code \in ListedRuleErrorCodes)
              => done.result \in RejectionStrings
        /\ (done.check.rule /\ done.check.code = "ErrHighHash")
              => done.result = "high-hash"
        /\ (done.check.rule /\ done.check.code \in {"ErrDifficultyTooLow",
                                                      "ErrUnexpectedDifficulty"})
              => done.result = "bad-diffbits"
        /\ ~(done.check.rule /\ done.check.code \in ListedRuleErrorCodes)
              => done.result = "rejected: " \o done.check.text
        /\ done.result \in RejectionStrings \cup RejectedWithText
        /\ RejectionStrings \subseteq
              {dagErrToGBTErrString(e) : e \in RejectionInputs}

\* The mapper was given a rule error whose code has no case.
C21_Witness ==
    /\ done.op = "rejection"
    /\ done.check.rule
    /\ done.check.code \in UnlistedRuleErrorCodes
    /\ done.result = "rejected: timeout"

(***************************************************************************)
(* The transaction list of a reply.                                        *)
(***************************************************************************)
\* C22: the transaction list built from a block of n >= 1 transactions has
\* n - 1 entries, entry k (from 0) is the block's transaction k + 1 with its
\* mass and fee, and no entry has the ID of the block's transaction 0, the
\* coinbase.
C22_CoinbaseOmitted ==
    done.op = "transactions" =>
        LET txs == done.block.txs
            numTx == Len(txs)
        IN  /\ Len(done.transactions) = numTx - 1
            /\ \A k \in 0..(numTx - 2) :
                  /\ done.transactions[k + 1].id = txs[k + 2].id
                  /\ done.transactions[k + 1].mass = done.block.txMasses[k + 2]
                  /\ done.transactions[k + 1].fee = done.block.fees[k + 2]
            /\ \A k \in 1..Len(done.transactions) :
                  done.transactions[k].id # txs[1].id

C24_CommittedStateConsistent ==
    /\ tipHashes # NilHashes =>
          /\ template # NoTemplate
          /\ template.parentHashes = tipHashes
    /\ (done.op \in RequestOps /\ done.outcome = "reply") =>
          LET reply == blockTemplateResult(CurrentState)
          IN  reply.longPollID =
                 encodeLongPollID(reply.parentHashes, payAddress, lastGenerated)

\* The key notifyLongPollers and templateUpdateChan file a generation under.
NotifyMapKey(g) == <<g.tipHashes, UnixSeconds(g.lastGenerated)>>

\* C25: two different regenerations never commit the same (tip hashes, pay
\* address, lastGenerated in seconds), so never give replies the same
\* long-poll ID, and never fall under the same key of notifyMap.
C25_LongPollIDUnique ==
    \A i, j \in 1..Len(generations) :
        i # j =>
            /\ generations[i].longPollID # generations[j].longPollID
            /\ <<generations[i].tipHashes, generations[i].payAddress,
                 UnixSeconds(generations[i].lastGenerated)>>
               # <<generations[j].tipHashes, generations[j].payAddress,
                   UnixSeconds(generations[j].lastGenerated)>>
            /\ NotifyMapKey(generations[i]) # NotifyMapKey(generations[j])

(***************************************************************************)
(* Wakes.                                                                  *)
(***************************************************************************)
\* C26: a long-poll request released by the close of its channel answers
\* with a template other than the one its ID named: the reply's tip hashes,
\* or its lastGenerated in seconds, differ from those the request was
\* registered under; this in every order of the requests and the closures
\* of NotifyBlockAdded and NotifyMempoolTx.
C26_NoSpuriousWake ==
    [][(done = NoOp /\ done'.op = "woken" /\ done'.outcome = "reply") =>
          \/ /\ tipHashes' # done'.sub.tipHashes
             /\ template'.parentHashes # done'.sub.tipHashes
          \/ UnixSeconds(lastGenerated') # done'.sub.lastGenerated]_vars

(***************************************************************************)
(* Proposals and the work state.                                           *)
(***************************************************************************)
\* C27: a proposal, whatever its outcome, is run by a goroutine that goes
\* from its start to its return with no Lock(): the mutex stays with whoever
\* holds it and no goroutine comes to wait for it; template, tipHashes,
\* lastGenerated, lastTxUpdate, minTimestamp and payAddress stay as they are;
\* no channel is closed, made, registered or taken out of the registry, and
\* the requests that wait go on waiting.
C27_ProposalReadOnly ==
    [][(done = NoOp /\ done'.op = "proposal") =>
          /\ mutex' = mutex
          /\ \E th \in Threads :
                /\ pc[th] = "idle"
                /\ pc' = [pc EXCEPT ![th] = "return"]
                /\ mutex # th
          /\ req' = req
          /\ UNCHANGED workFields
          /\ UNCHANGED <<notifyMap, closeCount, chansMade, waiting>>
          /\ done'.fired = {}
          /\ done'.sub = NoSub]_vars

\* A proposal was rejected with the string of a rule error while a long-poll
\* request waited and another goroutine held the mutex.
C27_Witness ==
    /\ done.op = "proposal"
    /\ done.result = "high-hash"
    /\ waiting # EmptyBag
    /\ mutex \in Threads
    /\ template # NoTemplate

=============================================================================
